---- MODULE Spec2Model ----
(***************************************************************************)
(* EchoMind (resetartend/EM): KakaoTalk transcript -> one speaker's        *)
(* utterances -> style metrics + sentiment/toxicity -> Big Five -> MBTI.   *)
(* Two flows: the interactive Flask flow (src/app.py, "app") and the       *)
(* standalone report flow (src/main.py, "main").                           *)
(*                                                                         *)
(* Text is a sequence of characters; a character is a one-symbol string.   *)
(* Hangul characters are written by their romanised names: "KK" U+314B,    *)
(* "HH" U+314E, "YU" U+3160, "UU" U+315C, "NA" U+B098, "NAE" U+B0B4, ...   *)
(* Numbers are exact fractions [n, d] where the code rounds its result     *)
(* (round(x, 3), round(x * 100, 2)) or only compares it; a tie that a      *)
(* float misses by its representation error is rounded as the fraction     *)
(* rounds. neutral_ratio of main.py, which is stored as computed, is a     *)
(* binary64.                                                               *)
(***************************************************************************)
EXTENDS Integers, Sequences, FiniteSets, TLC

VARIABLES
    flow,     \* "app" (src/app.py) or "main" (src/main.py)
    pc,       \* position of the run
    t,        \* clean_text: the raw string
    once,     \* clean_text(t)
    twice,    \* clean_text(clean_text(t))
    lines,    \* the transcript file: its lines, without the line ends
    fail_at,  \* I/O: NoFail, 0 (open raises) or k (reading line k raises)
    idx,      \* parse_kakao_txt: lines consumed so far
    rows,     \* parse_kakao_txt: rows
    raised,   \* whether parse_kakao_txt raised to its caller
    sentences,            \* the normalized units (my_sentences / sentences)
    HF_TOKEN,             \* whether the credential is set
    PERSPECTIVE_API_KEY,  \* whether the credential is set
    hf_env,       \* the replies the sentiment service can give in this run
    tox_env,      \* the replies the toxicity service can give in this run
    kiwi_tokens,  \* what kiwi.tokenize returns for the joined text
    senti_labels, \* hf_sentiment_labels: out
    tox_scores,   \* perspective_toxicity_scores: scores
    hf_failed,    \* per unit: whether the sentiment request failed
    tox_failed,   \* per unit: whether the toxicity request failed
    summary,      \* <<>> or <<summary / summary_data>>
    big5,         \* <<>> or <<the five trait scores>>
    mbti,         \* <<>> or <<mbti_result>>
    outcome,      \* "running", or how the run ended
    hf_requests,  \* requests.post calls to the sentiment service
    tox_requests, \* requests.post calls to the toxicity service
    session,      \* app.py: <<>> or <<user_id>>
    target_name,  \* the speaker to analyse (target_name / my_name)
    saved,        \* app.py: whether the upload was saved to UPLOAD_FOLDER
    conn,         \* app.py: "none", "open" or "closed"
    db,           \* the committed rows of chat_logs and personality_results
    report,       \* main.py: <<>> or <<what write_report wrote>>
    shown         \* app.py: <<>> or <<the row result_page rendered>>

norm == <<t, once, twice>>
parse == <<lines, fail_at, idx, rows, raised>>
env == <<HF_TOKEN, PERSPECTIVE_API_KEY, hf_env, tox_env, kiwi_tokens>>
signals == <<senti_labels, tox_scores, hf_failed, tox_failed>>
result == <<summary, big5, mbti>>
requests == <<hf_requests, tox_requests>>
io == <<session, target_name, saved, conn, db, report, shown>>
vars == <<flow, pc, norm, parse, sentences, env, signals, result, outcome,
          requests, io>>

Flows == {"app", "main"}
None == <<"None">>

(***************************************************************************)
(* Characters                                                              *)
(***************************************************************************)
Whitespace == {" ", "\t", "\n"}
IsSpace(c) == c \in Whitespace

\* [U+314B U+314E U+3160 U+315C]: the laughter / crying glyphs
Glyphs == {"KK", "HH", "YU", "UU"}

\* Characters that are not \w (everything else of the alphabet is a letter,
\* a digit or a Hangul character)
NonWord == Whitespace \cup {"-", ".", "!", "?", ":", "/", "[", "]", ","}
IsWord(c) == c \notin NonWord

Max(a, b) == IF a >= b THEN a ELSE b
Min(a, b) == IF a <= b THEN a ELSE b

\* t[i..j] (1-based, inclusive), empty when j < i
Slice(s, i, j) == IF j < i THEN <<>> ELSE SubSeq(s, i, j)

\* lit occurs in s at position i
HasAt(s, i, lit) ==
    /\ i >= 1
    /\ i + Len(lit) - 1 <= Len(s)
    /\ \A k \in 1..Len(lit) : s[i + k - 1] = lit[k]

\* end of the maximal run of whitespace starting at i (s[i] is whitespace)
SpaceRunEnd(s, i) ==
    CHOOSE j \in i..Len(s) :
        /\ \A k \in i..j : IsSpace(s[k])
        /\ (j = Len(s) \/ ~IsSpace(s[j + 1]))

\* end of the maximal run of non-whitespace starting at i
NonSpaceRunEnd(s, i) ==
    CHOOSE j \in i..Len(s) :
        /\ \A k \in i..j : ~IsSpace(s[k])
        /\ (j = Len(s) \/ IsSpace(s[j + 1]))

\* str.strip()
Strip(s) ==
    LET keep == {i \in 1..Len(s) : ~IsSpace(s[i])}
    IN  IF keep = {} THEN <<>>
        ELSE Slice(s, CHOOSE i \in keep : \A k \in keep : i <= k,
                      CHOOSE j \in keep : \A k \in keep : k <= j)

(***************************************************************************)
(* clean_text                                                              *)
(***************************************************************************)
\* https?://\S+ matched at i: the index of its last character, 0 if no match
UrlMatchEnd(s, i) ==
    IF ~HasAt(s, i, <<"h", "t", "t", "p">>) THEN 0
    ELSE IF /\ HasAt(s, i + 4, <<"s", ":", "/", "/">>)
            /\ i + 8 <= Len(s)
            /\ ~IsSpace(s[i + 8])
         THEN NonSpaceRunEnd(s, i + 8)
    ELSE IF /\ HasAt(s, i + 4, <<":", "/", "/">>)
            /\ i + 7 <= Len(s)
            /\ ~IsSpace(s[i + 7])
         THEN NonSpaceRunEnd(s, i + 7)
    ELSE 0

RECURSIVE SubUrlFrom(_, _)
SubUrlFrom(s, i) ==
    IF i > Len(s) THEN <<>>
    ELSE LET e == UrlMatchEnd(s, i)
         IN  IF e > 0 THEN <<" ">> \o SubUrlFrom(s, e + 1)
             ELSE <<s[i]>> \o SubUrlFrom(s, i + 1)

\* re.sub(r"https?://\S+", " ", t)
SubUrl(s) == SubUrlFrom(s, 1)

IsGlyph(c) == c \in Glyphs

\* re.sub(r"[KK HH YU UU]+", "", t): every run of glyphs is deleted
SubGlyph(s) == SelectSeq(s, LAMBDA c : ~IsGlyph(c))

RECURSIVE CollapseFrom(_, _)
CollapseFrom(s, i) ==
    IF i > Len(s) THEN <<>>
    ELSE IF IsSpace(s[i]) THEN <<" ">> \o CollapseFrom(s, SpaceRunEnd(s, i) + 1)
    ELSE <<s[i]>> \o CollapseFrom(s, i + 1)

\* re.sub(r"\s+", " ", t)
CollapseWs(s) == CollapseFrom(s, 1)

clean_text_main(s) == Strip(CollapseWs(SubUrl(s)))

clean_text_app(s) == Strip(CollapseWs(SubGlyph(SubUrl(s))))

clean_text(f, s) == IF f = "app" THEN clean_text_app(s) ELSE clean_text_main(s)

\* some substring of s matches https?://\S+
ContainsUrl(s) == \E i \in 1..Len(s) : UrlMatchEnd(s, i) > 0

(***************************************************************************)
(* Normalisation applied to raw strings                                    *)
(***************************************************************************)
MaxPieces == 4

Pieces == { <<"h", "t", "t", "p">>, <<"s">>, <<":", "/", "/">>, <<"x">>,
            <<" ">>, <<"\t">>, <<"KK">> }

RECURSIVE Concat(_)
Concat(ss) == IF ss = <<>> THEN <<>> ELSE Head(ss) \o Concat(Tail(ss))

PieceSeqs == UNION {[1..n -> Pieces] : n \in 0..MaxPieces}

RawTexts == {Concat(ps) : ps \in PieceSeqs}

NoFail == -1

NormIdle == t = None /\ once = None /\ twice = None
ParseIdle ==
    lines = <<>> /\ fail_at = NoFail /\ idx = 0 /\ rows = <<>> /\ raised = FALSE

EnvIdle ==
    /\ HF_TOKEN = FALSE /\ PERSPECTIVE_API_KEY = FALSE
    /\ hf_env = {} /\ tox_env = {} /\ kiwi_tokens = <<>>
SignalsIdle ==
    senti_labels = <<>> /\ tox_scores = <<>> /\ hf_failed = <<>> /\ tox_failed = <<>>
ResultIdle == summary = <<>> /\ big5 = <<>> /\ mbti = <<>>
RequestsIdle == hf_requests = 0 /\ tox_requests = 0
EmptyDb == [chat_logs |-> {}, personality_results |-> {}]
IoIdle ==
    /\ session = <<>> /\ target_name = <<>> /\ saved = FALSE
    /\ conn = "none" /\ db = EmptyDb /\ report = <<>> /\ shown = <<>>
RunIdle ==
    /\ sentences = <<>> /\ EnvIdle /\ SignalsIdle /\ ResultIdle
    /\ outcome = "running" /\ RequestsIdle /\ IoIdle
run == <<sentences, env, signals, result, outcome, requests, io>>

InitClean ==
    /\ flow \in Flows
    /\ pc = "raw"
    /\ t \in RawTexts
    /\ once = None
    /\ twice = None
    /\ ParseIdle
    /\ RunIdle

CleanOnce ==
    /\ pc = "raw"
    /\ once' = clean_text(flow, t)
    /\ pc' = "cleaned"
    /\ UNCHANGED <<flow, t, twice, parse, run>>

CleanTwice ==
    /\ pc = "cleaned"
    /\ twice' = clean_text(flow, once)
    /\ pc' = "recleaned"
    /\ UNCHANGED <<flow, t, once, parse, run>>

NextClean == CleanOnce \/ CleanTwice

SpecClean == InitClean /\ [][NextClean]_vars

\* C4: clean_text(clean_text(t)) = clean_text(t) in both flows, and a
\* normalized unit contains no URL
C4_Idempotent ==
    pc = "recleaned" => (twice = once /\ ~ContainsUrl(once))

\* C4 restricted to the standalone flow
C4_IdempotentMain ==
    (pc = "recleaned" /\ flow = "main") => (twice = once /\ ~ContainsUrl(once))

(***************************************************************************)
(* parse_kakao_txt                                                         *)
(***************************************************************************)
Digits == {"0", "1", "2", "3", "4", "5", "6", "7", "8", "9"}
IsDigit(c) == c \in Digits

\* "." of a regular expression: any character but the newline
IsDot(c) == c # "\n"

\* \d{1,2}:\d{2} matched at i: index of its last character, 0 if no match
TimeMatchEnd(s, i) ==
    IF /\ i + 4 <= Len(s)
       /\ IsDigit(s[i]) /\ IsDigit(s[i + 1]) /\ s[i + 2] = ":"
       /\ IsDigit(s[i + 3]) /\ IsDigit(s[i + 4])
    THEN i + 4
    ELSE IF /\ i >= 1 /\ i + 3 <= Len(s)
            /\ IsDigit(s[i]) /\ s[i + 1] = ":"
            /\ IsDigit(s[i + 2]) /\ IsDigit(s[i + 3])
    THEN i + 3
    ELSE 0

\* \s+(?P<msg>.+)$ matched at i: the index where msg starts, 0 if no match.
\* \s+ is greedy and gives one character back when nothing is left for msg.
MsgStart(s, i) ==
    IF i > Len(s) \/ ~IsSpace(s[i]) THEN 0
    ELSE LET r == SpaceRunEnd(s, i)
         IN  IF r < Len(s)
             THEN (IF \A k \in r + 1..Len(s) : IsDot(s[k]) THEN r + 1 ELSE 0)
             ELSE IF r > i /\ IsDot(s[r]) THEN r ELSE 0

\* \]\s+\[(?P<time>...)\]\s+(?P<msg>.+)$ matched at i (s[i] is to be "]"):
\* <<time start, time end, msg start>>, or <<0, 0, 0>>
TailMatch(s, i) ==
    IF i + 2 > Len(s) \/ s[i] # "]" \/ ~IsSpace(s[i + 1]) THEN <<0, 0, 0>>
    ELSE LET b == SpaceRunEnd(s, i + 1) + 1
         IN  IF b > Len(s) \/ s[b] # "[" THEN <<0, 0, 0>>
             ELSE LET e == TimeMatchEnd(s, b + 1)
                  IN  IF e = 0 \/ e + 1 > Len(s) \/ s[e + 1] # "]" THEN <<0, 0, 0>>
                      ELSE LET m == MsgStart(s, e + 2)
                           IN  IF m = 0 THEN <<0, 0, 0>> ELSE <<b + 1, e, m>>

\* the ends k of name = s[2..k] for which the whole of LINE_RE matches
NameEnds(s) ==
    {k \in 2..Len(s) :
        /\ s[1] = "["
        /\ \A j \in 2..k : IsDot(s[j])
        /\ TailMatch(s, k + 1) # <<0, 0, 0>>}

\* LINE_RE.match(line): <<the groups>>, or <<>> for None. (?P<name>.+?) is
\* lazy: the shortest name for which the rest matches.
LINE_RE_match(s) ==
    IF NameEnds(s) = {} THEN <<>>
    ELSE LET k == CHOOSE x \in NameEnds(s) : \A y \in NameEnds(s) : x <= y
             m == TailMatch(s, k + 1)
         IN  << [name |-> Slice(s, 2, k),
                 time |-> Slice(s, m[1], m[2]),
                 msg |-> Slice(s, m[3], Len(s))] >>

\* row without the trimming of speaker and text
RowUntrimmed(m) == [speaker |-> m.name, time |-> m.time, text |-> m.msg]

\* the row appended for a match
Row(m) == [speaker |-> Strip(m.name), time |-> m.time, text |-> Strip(m.msg)]

MaxLines == 2

L_plain == <<"[", "a", "]", " ", "[", "1", ":", "2", "3", "]", " ", "h", "i">>
L_padded == <<"[", " ", "b", " ", "]", " ", "\t", "[", "1", "2", ":", "3", "4", "]",
              " ", " ", "x", " ", "y", " ">>
L_notice == <<"-", "-", " ", "x">>
L_badtime == <<"[", "a", "]", " ", "[", "1", ":", "2", "]", " ", "x">>
L_blankmsg == <<"[", "a", "]", " ", "[", "1", ":", "2", "3", "]", " ", " ">>
L_nomsg == <<"[", "a", "]", " ", "[", "1", ":", "2", "3", "]", " ">>
L_bracket == <<"[", "a", "]", "b", "]", " ", "[", "1", ":", "2", "3", "]", " ",
               "[", "c", "]", " ", "[", "4", ":", "5", "6", "]", " ", "x">>
L_empty == <<>>

SampleLines == {L_plain, L_padded, L_notice, L_badtime, L_blankmsg, L_nomsg,
                L_bracket, L_empty}

Transcripts == UNION {[1..n -> SampleLines] : n \in 0..MaxLines}

InitParse ==
    /\ flow \in Flows
    /\ pc = "open"
    /\ NormIdle
    /\ lines \in Transcripts
    /\ fail_at \in {NoFail} \cup 0..Len(lines)
    /\ idx = 0
    /\ rows = <<>>
    /\ raised = FALSE
    /\ RunIdle

\* open(path, ...) raises: app.py catches it, prints and returns rows;
\* main.py lets it propagate
OpenFile ==
    /\ pc = "open"
    /\ IF fail_at = 0
       THEN /\ pc' = "parsed"
            /\ raised' = (flow = "main")
       ELSE /\ pc' = "reading"
            /\ UNCHANGED raised
    /\ UNCHANGED <<flow, norm, lines, fail_at, idx, rows, run>>

\* what the caller holds when reading raises: app.py returns the rows
\* collected so far, main.py's frame is dropped with the exception
RowsOnFailure(f, rs) == IF f = "app" THEN rs ELSE <<>>

\* one iteration of "for line in f"
ReadLine ==
    /\ pc = "reading"
    /\ idx < Len(lines)
    /\ IF fail_at = idx + 1
       THEN /\ pc' = "parsed"
            /\ raised' = (flow = "main")
            /\ rows' = RowsOnFailure(flow, rows)
            /\ UNCHANGED idx
       ELSE /\ idx' = idx + 1
            /\ LET m == LINE_RE_match(lines[idx + 1])
               IN  rows' = IF m = <<>> THEN rows ELSE Append(rows, Row(m[1]))
            /\ UNCHANGED <<pc, raised>>
    /\ UNCHANGED <<flow, norm, lines, fail_at, run>>

\* end of file: return rows
EndOfFile ==
    /\ pc = "reading"
    /\ idx = Len(lines)
    /\ pc' = "parsed"
    /\ UNCHANGED <<flow, norm, parse, run>>

NextParse == OpenFile \/ ReadLine \/ EndOfFile

SpecParse == InitParse /\ [][NextParse]_vars

\* --- the transcript line shape, as the claim words it ---
\* "[" speaker "]" whitespace "[" H:MM or HH:MM "]" whitespace message
IsTime(u) ==
    /\ Len(u) \in {4, 5}
    /\ u[Len(u) - 2] = ":"
    /\ \A i \in 1..Len(u) : i # Len(u) - 2 => IsDigit(u[i])

AllSpace(u) == u # <<>> /\ \A i \in 1..Len(u) : IsSpace(u[i])

\* <<k, a, b, m>>: speaker = s[2..k], time = s[a+1..b], message = s[m..]
ShapeSplits(s) ==
    {x \in (2..Len(s)) \X (1..Len(s)) \X {4, 5} \X (1..Len(s)) :
        LET k == x[1]  a == x[2]  b == x[2] + x[3]  m == x[4]
        IN  /\ s[1] = "["
            /\ k + 2 < a /\ b + 2 < m
            /\ s[k + 1] = "]"
            /\ AllSpace(Slice(s, k + 2, a - 1))
            /\ s[a] = "["
            /\ IsTime(Slice(s, a + 1, b))
            /\ s[b + 1] = "]"
            /\ AllSpace(Slice(s, b + 2, m - 1))}

\* the utterance the claim expects of a line: <<>> when the line has not the
\* shape, else the groups of the split with the shortest speaker, trimmed
ExpectedOfLine ==
    [s \in SampleLines |->
        LET sp == ShapeSplits(s)
        IN  IF sp = {} THEN <<>>
            ELSE LET x == CHOOSE y \in sp : \A z \in sp : y[1] <= z[1]
                 IN  << [speaker |-> Strip(Slice(s, 2, x[1])),
                         time |-> Slice(s, x[2] + 1, x[2] + x[3]),
                         text |-> Strip(Slice(s, x[4], Len(s)))] >>]

RECURSIVE ExpectedRows(_)
ExpectedRows(ls) ==
    IF ls = <<>> THEN <<>>
    ELSE ExpectedOfLine[Head(ls)] \o ExpectedRows(Tail(ls))

\* C9: the rows are exactly the utterances of the lines read so far that
\* have the shape [speaker] [H:MM or HH:MM] message, in transcript order,
\* speaker and text trimmed; other lines are skipped
C9_OneRowPerMatchingLine ==
    (pc \in {"reading", "parsed"} /\ ~raised)
        => rows = ExpectedRows(SubSeq(lines, 1, idx))

\* C9 witness: a whole transcript read, one line skipped and the padded line
\* parsed into a trimmed row
C9_Witness ==
    /\ pc = "parsed" /\ fail_at = NoFail
    /\ Len(lines) = 2 /\ Len(rows) = 1
    /\ rows[1] = [speaker |-> <<"b">>, time |-> <<"1", "2", ":", "3", "4">>,
                  text |-> <<"x", " ", "y">>]

\* C7: after an open or read failure the parser's result is empty and the
\* failure has been reported to the caller
C7_FailureReportedAndEmpty ==
    (pc = "parsed" /\ fail_at # NoFail) => (rows = <<>> /\ raised)

(***************************************************************************)
(* Exact fractions                                                         *)
(***************************************************************************)
Abs(x) == IF x < 0 THEN -x ELSE x

RECURSIVE Gcd(_, _)
Gcd(a, b) == IF b = 0 THEN a ELSE Gcd(b, a % b)

\* n / d in lowest terms, d > 0
Frac(n, d) ==
    LET g == Gcd(Abs(n), Abs(d))
        sg == IF d < 0 THEN -1 ELSE 1
    IN  [n |-> sg * (n \div g), d |-> sg * (d \div g)]

Zero == Frac(0, 1)
One == Frac(1, 1)
FAdd(a, b) == Frac(a.n * b.d + b.n * a.d, a.d * b.d)
FSub(a, b) == Frac(a.n * b.d - b.n * a.d, a.d * b.d)
FMul(a, b) == Frac(a.n * b.n, a.d * b.d)
FDivInt(a, k) == Frac(a.n, a.d * k)
FLe(a, b) == a.n * b.d <= b.n * a.d
FLt(a, b) == a.n * b.d < b.n * a.d
FMin(a, b) == IF FLe(a, b) THEN a ELSE b
\* c / 100, a two-decimal literal such as 0.45
Lit(c) == Frac(c, 100)

\* the integer nearest to x, ties to the even one (Python's round)
RoundHalfEven(x) ==
    LET q == x.n \div x.d
        r == x.n % x.d
    IN  IF 2 * r < x.d THEN q
        ELSE IF 2 * r > x.d THEN q + 1
        ELSE IF q % 2 = 0 THEN q ELSE q + 1

\* round(x, k) for 10^k = scale
Round(x, scale) == Frac(RoundHalfEven(FMul(x, Frac(scale, 1))), scale)

(***************************************************************************)
(* Python floats (IEEE 754 binary64, round to nearest even) for the        *)
(* complement 1 - pos - neg, which main.py takes without rounding.         *)
(* A magnitude <<hi, lo>> stands for (hi * Limb + lo) * 2^(-FracBits):     *)
(* every float k / n with 16 * k >= n, and every difference of two such    *)
(* floats, is on this grid. A value is [neg, mag].                         *)
(***************************************************************************)
\* significand bits of a binary64
Precision == 53
HalfLimbBits == 14
HalfLimb == 16384
Limb == HalfLimb * HalfLimb
FracBits == 4 * HalfLimbBits

RECURSIVE Pow2(_)
Pow2(e) == IF e = 0 THEN 1 ELSE 2 * Pow2(e - 1)

RECURSIVE BitLen(_)
\* the number of bits of x >= 0
BitLen(x) == IF x = 0 THEN 0 ELSE 1 + BitLen(x \div 2)

ZeroMag == <<0, 0>>
OneMag == <<Limb, 0>>
\* 2^(-e) for FracBits - 2 * HalfLimbBits < e <= FracBits
PowMag(e) == <<0, Pow2(FracBits - e)>>

\* a >= b
GeMag(a, b) == a[1] > b[1] \/ (a[1] = b[1] /\ a[2] >= b[2])

\* a - b for a >= b
SubMag(a, b) ==
    IF a[2] >= b[2] THEN <<a[1] - b[1], a[2] - b[2]>>
    ELSE <<a[1] - b[1] - 1, a[2] + Limb - b[2]>>

\* a + b
AddMag(a, b) ==
    IF a[2] + b[2] < Limb THEN <<a[1] + b[1], a[2] + b[2]>>
    ELSE <<a[1] + b[1] + 1, a[2] + b[2] - Limb>>

\* what lies below the grid, in grid units
Nothing == "0"
UnderHalf == "under 1/2"
Half == "1/2"
OverHalf == "over 1/2"

\* the magnitude a (of at least Precision bits when below # Nothing) plus
\* what lies below the grid, rounded to Precision significant bits, ties to
\* even
RoundMag(a, below) ==
    LET len == IF a[1] > 0 THEN 2 * HalfLimbBits + BitLen(a[1]) ELSE BitLen(a[2])
        drop == len - Precision
        unit == IF drop > 0 THEN Pow2(drop) ELSE 1
        tail == a[2] % unit
        cut == a[2] - tail
        odd == (cut \div unit) % 2 = 1
        up == IF drop > 0
              THEN \/ 2 * tail > unit
                   \/ 2 * tail = unit /\ (below # Nothing \/ odd)
              ELSE below = OverHalf \/ (below = Half /\ odd)
        lo == IF up THEN cut + unit ELSE cut
    IN  IF lo = Limb THEN <<a[1] + 1, 0>> ELSE <<a[1], lo>>

RECURSIVE Pow2Mod(_, _)
\* 2^i mod n
Pow2Mod(n, i) == IF i = 0 THEN 1 % n ELSE (2 * Pow2Mod(n, i - 1)) % n

\* what is left of k after i fraction bits of k / n: k itself before the
\* first, (k * 2^i) mod n after
RemAt(k, n, i) == IF i = 0 THEN k ELSE (k * Pow2Mod(n, i)) % n

\* fraction bits HalfLimbBits * (j - 1) + 1 .. HalfLimbBits * j of k / n
\* (with the integer part for j = 1)
QuotAt(k, n, j) == (RemAt(k, n, HalfLimbBits * (j - 1)) * HalfLimb) \div n

\* the float k / n for integers 0 <= k <= n, n >= 1, with k = 0 or
\* 16 * k >= n
F64Div(k, n) ==
    LET r == RemAt(k, n, FracBits)
    IN  [neg |-> FALSE,
         mag |-> RoundMag(<<QuotAt(k, n, 1) * HalfLimb + QuotAt(k, n, 2),
                            QuotAt(k, n, 3) * HalfLimb + QuotAt(k, n, 4)>>,
                          IF r = 0 THEN Nothing
                          ELSE IF 2 * r < n THEN UnderHalf
                          ELSE IF 2 * r = n THEN Half ELSE OverHalf)]

\* the float of the fraction x, 0 <= x <= 1
ToF64(x) == F64Div(x.n, x.d)

F64One == [neg |-> FALSE, mag |-> OneMag]

\* the float x - y for floats x >= 0 and y >= 0
F64Sub(x, y) ==
    IF GeMag(x.mag, y.mag)
    THEN [neg |-> FALSE, mag |-> RoundMag(SubMag(x.mag, y.mag), Nothing)]
    ELSE [neg |-> TRUE, mag |-> RoundMag(SubMag(y.mag, x.mag), Nothing)]

\* the real number x + y (not rounded)
SignedAdd(x, y) ==
    IF x.neg = y.neg THEN [neg |-> x.neg, mag |-> AddMag(x.mag, y.mag)]
    ELSE IF GeMag(x.mag, y.mag) THEN [neg |-> x.neg, mag |-> SubMag(x.mag, y.mag)]
    ELSE [neg |-> y.neg, mag |-> SubMag(y.mag, x.mag)]

Negate(x) == [neg |-> ~x.neg, mag |-> x.mag]

\* the real numbers x and y are equal
SameReal(x, y) == x.mag = y.mag /\ (x.neg = y.neg \/ x.mag = ZeroMag)

\* 0 <= x <= 1
F64InUnit(x) == (~x.neg \/ x.mag = ZeroMag) /\ GeMag(OneMag, x.mag)

\* |x - y| <= 2^(-e)
F64Near(x, y, e) == GeMag(PowMag(e), SignedAdd(x, Negate(y)).mag)

(***************************************************************************)
(* style_metrics (main.py)                                                 *)
(***************************************************************************)
\* re.I: the letters of the alphabet that have an upper case
Fold(c) == IF c = "I" THEN "i" ELSE IF c = "M" THEN "m" ELSE c
FoldAll(s) == [i \in 1..Len(s) |-> Fold(s[i])]

\* U+B098 | U+B0B4 U+AC00 | U+B098 U+B294 | U+B0B4 | U+C81C U+AC00 | U+C81C
\* | I | me | my | mine
SelfRefWords ==
    { <<"NA">>, <<"NAE", "GA">>, <<"NA", "NEUN">>, <<"NAE">>, <<"JE", "GA">>,
      <<"JE">>, <<"i">>, <<"m", "e">>, <<"m", "y">>, <<"m", "i", "n", "e">> }

\* U+C544 U+B9C8 | U+AC19 U+B2E4 | U+B4EF | U+C77C U+C9C0 U+B3C4
\* | maybe | might | could | seems?
UncertaintyWords ==
    { <<"AA", "MA">>, <<"GAT", "DA">>, <<"DEUT">>, <<"IL", "JI", "DO">>,
      <<"m", "a", "y", "b", "e">>, <<"m", "i", "g", "h", "t">>,
      <<"c", "o", "u", "l", "d">>, <<"s", "e", "e", "m">>,
      <<"s", "e", "e", "m", "s">> }

\* U+BC18 U+B4DC U+C2DC | U+D655 U+C2E4 U+D788 | U+D2C0 U+B9BC U+C5C6 U+C774
\* | definitely | always | never
CertaintyWords ==
    { <<"BAN", "DEU", "SI">>, <<"HWAK", "SIL", "HI">>,
      <<"TEUL", "RIM", "EOPS", "II">>,
      <<"d", "e", "f", "i", "n", "i", "t", "e", "l", "y">>,
      <<"a", "l", "w", "a", "y", "s">>, <<"n", "e", "v", "e", "r">> }

\* end of the maximal run of \w characters starting at i
WordRunEnd(s, i) ==
    CHOOSE j \in i..Len(s) :
        /\ \A k \in i..j : IsWord(s[k])
        /\ (j = Len(s) \/ ~IsWord(s[j + 1]))

\* len(re.findall(r"\b(w1|w2|...)\b", s, flags=re.I)): a match starts at a
\* word boundary, is one of the words and ends at a word boundary, so it is
\* a maximal run of \w characters that is one of the words
FindAllCount(words, s) ==
    Cardinality({i \in 1..Len(s) :
        /\ IsWord(s[i])
        /\ (i = 1 \/ ~IsWord(s[i - 1]))
        /\ FoldAll(Slice(s, i, WordRunEnd(s, i))) \in words})

RECURSIVE SplitFrom(_, _)
SplitFrom(s, i) ==
    IF i > Len(s) THEN <<>>
    ELSE IF IsSpace(s[i]) THEN SplitFrom(s, i + 1)
    ELSE LET e == NonSpaceRunEnd(s, i)
         IN  <<Slice(s, i, e)>> \o SplitFrom(s, e + 1)

\* str.split()
Split(s) == SplitFrom(s, 1)

RECURSIVE JoinSpace(_)
\* " ".join(sentences)
JoinSpace(ss) ==
    IF ss = <<>> THEN <<>>
    ELSE IF Len(ss) = 1 THEN ss[1]
    ELSE ss[1] \o <<" ">> \o JoinSpace(Tail(ss))

Range(f) == {f[i] : i \in DOMAIN f}

RECURSIVE SumLens(_)
\* sum(len(s.split()) for s in sentences)
SumLens(ss) == IF ss = <<>> THEN 0 ELSE Len(Split(Head(ss))) + SumLens(Tail(ss))

\* a ratio of style_metrics: count / total
Ratio(count, total) == Frac(count, total)

style_metrics(ss) ==
    LET joined == JoinSpace(ss)
        toks == Split(joined)
        total == IF Len(toks) = 0 THEN 1 ELSE Len(toks)
    IN  [self_ref |-> Ratio(FindAllCount(SelfRefWords, joined), total),
         uncertainty |-> Ratio(FindAllCount(UncertaintyWords, joined), total),
         certainty |-> Ratio(FindAllCount(CertaintyWords, joined), total),
         avg_len |-> IF ss = <<>> THEN Zero ELSE Frac(SumLens(ss), Len(ss)),
         ttr |-> Frac(Cardinality(Range(toks)), total)]

(***************************************************************************)
(* analyze_korean_style (app.py); a token is [form, tag]                   *)
(***************************************************************************)
KSelfRef == {"NA", "JEO", "NAE", "JE", "URI"}
KCertainty == {"JINJJA", "JEONGMAL", "NEOMU", "WANJEON", "HWAKSILHI",
               "BUNMYEONG", "BANDEUSI", "GAE"}
KUncertainty == {"DEUT", "NA", "GA", "GEULSSE", "AAMA", "JI"}

\* tag.startswith(c): a tag is a sequence of letters
StartsWith(tag, c) == Len(tag) >= 1 /\ tag[1] = c

analyze_korean_style(ss, toks) ==
    IF JoinSpace(ss) = <<>>
    THEN [avg_len |-> Zero, self_ref |-> Zero, certainty |-> Zero,
          uncertainty |-> Zero, ttr |-> Zero]
    ELSE
    LET total_words == IF Len(toks) = 0 THEN 1 ELSE Len(toks)
        unique_morphs == {toks[i].form : i \in 1..Len(toks)}
        self_ref_count ==
            Cardinality({i \in 1..Len(toks) :
                toks[i].form \in KSelfRef /\ StartsWith(toks[i].tag, "N")})
        certainty_count ==
            Cardinality({i \in 1..Len(toks) :
                toks[i].form \in KCertainty /\ StartsWith(toks[i].tag, "M")})
        uncertainty_count ==
            Cardinality({i \in 1..Len(toks) :
                /\ toks[i].form \in KUncertainty
                /\ (StartsWith(toks[i].tag, "E") \/ StartsWith(toks[i].tag, "M"))})
    IN  [avg_len |-> IF ss = <<>> THEN Zero ELSE Frac(SumLens(ss), Len(ss)),
         self_ref |-> Frac(self_ref_count, total_words),
         certainty |-> Frac(certainty_count, total_words),
         uncertainty |-> Frac(uncertainty_count, total_words),
         ttr |-> Frac(Cardinality(unique_morphs), total_words)]

(***************************************************************************)
(* infer_bigfive (main.py), infer_bigfive_korean (app.py)                  *)
(***************************************************************************)
\* min(1.0, x): the only clamp of main.py's scorer
Cap1(x) == FMin(One, x)

infer_bigfive(s) ==
    LET st == s.style
        avg_len_norm == FMin(One, FDivInt(st.avg_len, 30))
        inv(x) == FSub(One, x)
        openness ==
            Cap1(FAdd(FAdd(FMul(Lit(45), st.ttr), FMul(Lit(35), s.topic_div)),
                      FMul(Lit(20), avg_len_norm)))
        conscientiousness ==
            Cap1(FAdd(FAdd(FMul(Lit(50), st.certainty),
                           FMul(Lit(30), inv(s.toxicity_avg))),
                      FMul(Lit(20), s.positive_ratio)))
        extraversion ==
            Cap1(FAdd(FAdd(FMul(Lit(50), st.self_ref),
                           FMul(Lit(30), s.positive_ratio)),
                      FMul(Lit(20), avg_len_norm)))
        agreeableness ==
            Cap1(FAdd(FAdd(FMul(Lit(55), inv(s.toxicity_avg)),
                           FMul(Lit(25), s.positive_ratio)),
                      FMul(Lit(20), inv(st.uncertainty))))
        neuroticism ==
            Cap1(FAdd(FAdd(FMul(Lit(60), s.negative_ratio),
                           FMul(Lit(20), st.uncertainty)),
                      FMul(Lit(20), inv(st.certainty))))
    IN  [openness |-> Round(openness, 1000),
         conscientiousness |-> Round(conscientiousness, 1000),
         extraversion |-> Round(extraversion, 1000),
         agreeableness |-> Round(agreeableness, 1000),
         neuroticism |-> Round(neuroticism, 1000)]

\* normalize(val, scale) = min(1.0, val * scale)
normalize(val, scale) == FMin(One, FMul(val, Frac(scale, 1)))

\* round(x * 100, 2)
Percent(x) == Round(FMul(x, Frac(100, 1)), 100)

\* the scorer with normalize(avg_len, 15) for normalize(avg_len / 15)
infer_bigfive_korean_avglen(s) ==
    LET st == s.style
    IN  [openness |->
            Percent(FAdd(FMul(Lit(70), normalize(st.ttr, 2)), FMul(Lit(30), s.topic_div))),
         conscientiousness |->
            Percent(FAdd(FAdd(FMul(Lit(40), normalize(st.certainty, 10)),
                              FMul(Lit(30), FSub(One, s.toxicity_avg))),
                         FMul(Lit(30), normalize(st.avg_len, 20)))),
         extraversion |->
            Percent(FAdd(FAdd(FMul(Lit(40), s.positive_ratio),
                              FMul(Lit(30), normalize(st.avg_len, 15))),
                         FMul(Lit(30), normalize(st.self_ref, 10)))),
         agreeableness |->
            Percent(FAdd(FAdd(FMul(Lit(50), FSub(One, s.toxicity_avg)),
                              FMul(Lit(30), s.positive_ratio)),
                         FMul(Lit(20), normalize(st.uncertainty, 5)))),
         neuroticism |->
            Percent(FAdd(FAdd(FMul(Lit(50), s.negative_ratio),
                              FMul(Lit(30), normalize(st.uncertainty, 5))),
                         FMul(Lit(20), s.toxicity_avg)))]

infer_bigfive_korean(s) ==
    LET st == s.style
    IN  [openness |->
            Percent(FAdd(FMul(Lit(70), normalize(st.ttr, 2)), FMul(Lit(30), s.topic_div))),
         conscientiousness |->
            Percent(FAdd(FAdd(FMul(Lit(40), normalize(st.certainty, 10)),
                              FMul(Lit(30), FSub(One, s.toxicity_avg))),
                         FMul(Lit(30), normalize(FDivInt(st.avg_len, 20), 1)))),
         extraversion |->
            Percent(FAdd(FAdd(FMul(Lit(40), s.positive_ratio),
                              FMul(Lit(30), normalize(FDivInt(st.avg_len, 15), 1))),
                         FMul(Lit(30), normalize(st.self_ref, 10)))),
         agreeableness |->
            Percent(FAdd(FAdd(FMul(Lit(50), FSub(One, s.toxicity_avg)),
                              FMul(Lit(30), s.positive_ratio)),
                         FMul(Lit(20), normalize(st.uncertainty, 5)))),
         neuroticism |->
            Percent(FAdd(FAdd(FMul(Lit(50), s.negative_ratio),
                              FMul(Lit(30), normalize(st.uncertainty, 5))),
                         FMul(Lit(20), s.toxicity_avg)))]

(***************************************************************************)
(* calculate_mbti_and_reasoning (app.py)                                   *)
(***************************************************************************)
Fifty == Frac(50, 1)

\* score > 50
AboveMid(score) == FLt(Fifty, score)

\* score >= 50
AtLeastMid(score) == FLe(Fifty, score)

\* the four letters; the reasons are one template per letter, the N and F
\* templates interpolating ttr and toxicity_avg to two decimals
calculate_mbti_and_reasoning(b, summary_data) ==
    LET e_type == IF AtLeastMid(b.extraversion) THEN "E" ELSE "I"
        n_type == IF AtLeastMid(b.openness) THEN "N" ELSE "S"
        f_type == IF AtLeastMid(b.agreeableness) THEN "F" ELSE "T"
        j_type == IF AtLeastMid(b.conscientiousness) THEN "J" ELSE "P"
    IN  [mbti_result |-> <<e_type, n_type, f_type, j_type>>,
         reasons |->
            << <<e_type>>,
               IF n_type = "N" THEN <<"N", Round(summary_data.style.ttr, 100)>>
               ELSE <<"S">>,
               IF f_type = "F" THEN <<"F", Round(summary_data.toxicity_avg, 100)>>
               ELSE <<"T">>,
               <<j_type>> >>]

(***************************************************************************)
(* Scoring and classification of given summaries                           *)
(***************************************************************************)
\* summary (main.py) / summary_data (app.py)
MakeSummary(f, n, pos, neg, tox, style, topic_div) ==
    IF f = "main"
    THEN [n_sentences |-> n, positive_ratio |-> pos, negative_ratio |-> neg,
          neutral_ratio |-> F64Sub(F64Sub(F64One, ToF64(pos)), ToF64(neg)),
          toxicity_avg |-> tox,
          style |-> style, topic_div |-> topic_div]
    ELSE [positive_ratio |-> pos, negative_ratio |-> neg, toxicity_avg |-> tox,
          style |-> style, topic_div |-> topic_div]

\* the example: self_ref=0.02, certainty=0.01, uncertainty=0.03, avg_len=8,
\* ttr=0.6
ExampleStyle ==
    [self_ref |-> Lit(2), certainty |-> Lit(1), uncertainty |-> Lit(3),
     avg_len |-> Frac(8, 1), ttr |-> Lit(60)]

\* 5 units, positive_ratio=0.6, negative_ratio=0.1, toxicity_avg=0.05,
\* topic_div=0.8
ExampleSummary(f) ==
    MakeSummary(f, 5, Lit(60), Lit(10), Lit(5), ExampleStyle, Lit(80))

StyleGrid ==
    [self_ref : {Zero, Lit(2), One}, certainty : {Zero, Lit(1), Lit(5), One},
     uncertainty : {Zero, Lit(3), One},
     avg_len : {Zero, Frac(8, 1), Frac(15, 1), Frac(40, 1)},
     ttr : {Zero, Lit(25), Lit(60), One}]

SentimentGrid ==
    { <<Zero, Zero>>, <<Lit(60), Lit(10)>>, <<Lit(50), Lit(50)>>, <<One, Zero>>,
      <<Zero, One>> }

ToxGrid == {Zero, Lit(5), One}
TopicGrid == {Lit(50), Lit(80), One}

InitScoreInputs ==
    /\ flow \in Flows
    /\ pc = "score"
    /\ \E st \in StyleGrid, sg \in SentimentGrid, tx \in ToxGrid, td \in TopicGrid :
          summary = <<MakeSummary(flow, 5, sg[1], sg[2], tx, st, td)>>
    /\ big5 = <<>>

InitScore ==
    /\ InitScoreInputs
    /\ NormIdle /\ ParseIdle
    /\ sentences = <<>> /\ EnvIdle /\ SignalsIdle
    /\ mbti = <<>>
    /\ outcome = "running"
    /\ RequestsIdle /\ IoIdle

\* big5 = infer_bigfive(summary) / big5_result = infer_bigfive_korean(summary_data)
Score ==
    /\ pc = "score"
    /\ big5' = IF flow = "app" THEN <<infer_bigfive_korean(summary[1])>>
               ELSE <<infer_bigfive(summary[1])>>
    /\ pc' = IF flow = "app" THEN "classify" ELSE "write"
    /\ UNCHANGED <<flow, norm, parse, sentences, env, signals, summary, mbti, outcome,
                   requests, io>>

\* mbti_prediction, reasoning_text = calculate_mbti_and_reasoning(...)
Classify ==
    /\ pc = "classify"
    /\ mbti' = <<calculate_mbti_and_reasoning(big5[1], summary[1])>>
    /\ pc' = "store"
    /\ UNCHANGED <<flow, norm, parse, sentences, env, signals, summary, big5, outcome,
                   requests, io>>

NextScore == Score \/ Classify

SpecScore == InitScore /\ [][NextScore]_vars

\* C1 as stated: for the example the scorer gives extraversion > 50 and the
\* classifier assigns E
C1_ExampleExtravert ==
    (flow = "app" /\ summary = <<ExampleSummary("app")>> /\ pc = "store")
        => (FLt(Fifty, big5[1].extraversion) /\ mbti[1].mbti_result[1] = "E")

\* C1 amended: for the example infer_bigfive_korean gives extraversion 46.0
\* (infer_bigfive 0.243), not above the midpoint, and the classifier
\* assigns I
C1_ExampleIntrovert ==
    /\ (summary = <<ExampleSummary(flow)>> /\ big5 # <<>>)
          => big5[1].extraversion = IF flow = "app" THEN Frac(46, 1) ELSE Frac(243, 1000)
    /\ (summary = <<ExampleSummary("app")>> /\ mbti # <<>>)
          => mbti[1].mbti_result[1] = "I"

\* C1 witness: the example scored by infer_bigfive_korean and classified
C1_Witness ==
    /\ flow = "app" /\ pc = "store" /\ summary = <<ExampleSummary("app")>>
    /\ big5[1].extraversion = Frac(46, 1) /\ mbti # <<>>

LetterOf(score, hi, lo) == IF FLt(score, Fifty) THEN lo ELSE hi

\* C8: the type code is four letters in the order E/I, N/S, F/T, J/P, each
\* decided by its own score against 50 alone (extraversion, openness,
\* agreeableness, conscientiousness), a score of exactly 50 giving E, N, F, J
C8_TypeCode ==
    mbti # <<>> =>
        LET code == mbti[1].mbti_result
            b == big5[1]
        IN  /\ Len(code) = 4
            /\ code[1] = LetterOf(b.extraversion, "E", "I")
            /\ code[2] = LetterOf(b.openness, "N", "S")
            /\ code[3] = LetterOf(b.agreeableness, "F", "T")
            /\ code[4] = LetterOf(b.conscientiousness, "J", "P")
            /\ (b.extraversion = Fifty => code[1] = "E")
            /\ (b.openness = Fifty => code[2] = "N")
            /\ (b.agreeableness = Fifty => code[3] = "F")
            /\ (b.conscientiousness = Fifty => code[4] = "J")

\* C8 witness: a score computed by the scorer lands exactly on 50 and
\* resolves to E, with the other axes on the low side
C8_Witness ==
    /\ pc = "store" /\ mbti # <<>>
    /\ summary[1].positive_ratio = Lit(50)
    /\ big5[1].extraversion = Fifty
    /\ FLt(big5[1].openness, Fifty)
    /\ mbti[1].mbti_result[1] = "E" /\ mbti[1].mbti_result[2] = "S"

(***************************************************************************)
(* hf_sentiment_labels, perspective_toxicity_scores and the summary        *)
(***************************************************************************)
\* a reply to requests.post: an HTTP status, or "timeout" for a network
\* error or timeout (requests raises); body is the top label, upper-cased
HfLabels == {"POSITIVE", "NEGATIVE", "NEUTRAL"}
HfReplies ==
    [status : {"200"}, body : HfLabels]
        \cup [status : {"500", "503", "timeout"}, body : {""}]

\* value is attributeScores.TOXICITY.summaryScore.value
ToxReplies ==
    [status : {"200"}, value : {Zero, Lit(50), One}]
        \cup [status : {"500", "timeout"}, value : {Zero}]

Crash ==
    /\ outcome' = "crashed"
    /\ pc' = "end"

\* app.py: if not HF_TOKEN: return ["NEUTRAL"] * len(texts)
HfNoToken ==
    /\ pc = "hf" /\ flow = "app" /\ ~HF_TOKEN
    /\ senti_labels' = [i \in 1..Len(sentences) |-> "NEUTRAL"]
    /\ hf_failed' = [i \in 1..Len(sentences) |-> TRUE]
    /\ pc' = "tox"
    /\ UNCHANGED <<flow, norm, parse, sentences, env, tox_scores, tox_failed,
                   result, outcome, requests, io>>

\* the label app.py appends for a reply: anything but a 200 is NEUTRAL
HfLabelApp(r) == IF r.status = "200" THEN r.body ELSE "NEUTRAL"

\* one iteration of "for t in texts" of hf_sentiment_labels
HfCall ==
    /\ pc = "hf"
    /\ flow = "app" => HF_TOKEN
    /\ Len(senti_labels) < Len(sentences)
    /\ \E r \in hf_env :
        IF flow = "app"
        THEN /\ senti_labels' = Append(senti_labels, HfLabelApp(r))
             /\ hf_failed' = Append(hf_failed, r.status # "200")
             /\ hf_requests' = hf_requests + 1
             /\ pc' = IF Len(senti_labels) + 1 = Len(sentences) THEN "tox" ELSE "hf"
             /\ UNCHANGED outcome
        ELSE \* main.py: a 503 is retried once; requests.post raises on a
             \* timeout and raise_for_status on any other status
             \E r2 \in hf_env :
                LET final == IF r.status = "503" THEN r2 ELSE r
                IN  /\ r.status # "503" => r2 = r
                    /\ hf_requests' = hf_requests + (IF r.status = "503" THEN 2 ELSE 1)
                    /\ IF r.status = "timeout" \/ final.status # "200"
                       THEN /\ Crash
                            /\ UNCHANGED <<senti_labels, hf_failed>>
                       ELSE /\ senti_labels' = Append(senti_labels, final.body)
                            /\ hf_failed' = Append(hf_failed, FALSE)
                            /\ pc' = IF Len(senti_labels) + 1 = Len(sentences)
                                     THEN "tox" ELSE "hf"
                            /\ UNCHANGED outcome
    /\ UNCHANGED <<flow, norm, parse, sentences, env, tox_scores, tox_failed, result,
                   tox_requests, io>>

\* if not PERSPECTIVE_API_KEY: return [0.0] * len(texts)
ToxNoKey ==
    /\ pc = "tox" /\ ~PERSPECTIVE_API_KEY
    /\ tox_scores' = [i \in 1..Len(sentences) |-> Zero]
    /\ tox_failed' = [i \in 1..Len(sentences) |-> TRUE]
    /\ pc' = "summary"
    /\ UNCHANGED <<flow, norm, parse, sentences, env, senti_labels, hf_failed,
                   result, outcome, requests, io>>

\* the score app.py appends for a reply: anything but a 200 is 0.0
ToxScoreApp(r) == IF r.status = "200" THEN r.value ELSE Zero

\* one iteration of "for t in texts" of perspective_toxicity_scores
ToxCall ==
    /\ pc = "tox" /\ PERSPECTIVE_API_KEY
    /\ Len(tox_scores) < Len(sentences)
    /\ tox_requests' = tox_requests + 1
    /\ \E r \in tox_env :
        IF flow = "app"
        THEN /\ tox_scores' = Append(tox_scores, ToxScoreApp(r))
             /\ tox_failed' = Append(tox_failed, r.status # "200")
             /\ pc' = IF Len(tox_scores) + 1 = Len(sentences) THEN "summary" ELSE "tox"
             /\ UNCHANGED outcome
        ELSE IF r.status # "200"
        THEN /\ Crash
             /\ UNCHANGED <<tox_scores, tox_failed>>
        ELSE /\ tox_scores' = Append(tox_scores, r.value)
             /\ tox_failed' = Append(tox_failed, FALSE)
             /\ pc' = IF Len(tox_scores) + 1 = Len(sentences) THEN "summary" ELSE "tox"
             /\ UNCHANGED outcome
    /\ UNCHANGED <<flow, norm, parse, sentences, env, senti_labels, hf_failed, result,
                   hf_requests, io>>

\* cnt.get(label, 0)
CountLabel(labels, l) == Cardinality({i \in 1..Len(labels) : labels[i] = l})

RECURSIVE FSum(_)
FSum(xs) == IF xs = <<>> THEN Zero ELSE FAdd(Head(xs), FSum(Tail(xs)))

\* float(np.mean(tox_scores)) if tox_scores else 0.0
ToxAvg(xs) == IF xs = <<>> THEN Zero ELSE FDivInt(FSum(xs), Len(xs))

\* main.py: the summary of a run. pos and neg are kept as the fractions
\* whose floats they are (infer_bigfive rounds what it makes of them to
\* three decimals); neu is the float the two subtractions give
summarise_main(ss, labels, tox) ==
    LET n == Len(ss)
        pos == Frac(CountLabel(labels, "POSITIVE"), n)
        neg == Frac(CountLabel(labels, "NEGATIVE"), n)
        neu == F64Sub(F64Sub(F64One, ToF64(pos)), ToF64(neg))
    IN  [n_sentences |-> n, positive_ratio |-> pos, negative_ratio |-> neg,
         neutral_ratio |-> neu, toxicity_avg |-> ToxAvg(tox),
         style |-> style_metrics(ss),
         topic_div |-> FMin(One, FAdd(Lit(50), FMul(Lit(50), Frac(Cardinality(Range(ss)), n))))]

\* app.py: korean_style and summary_data of a run
summarise_app(ss, labels, tox, toks) ==
    LET n == Len(ss)
    IN  [positive_ratio |-> Frac(CountLabel(labels, "POSITIVE"), n),
         negative_ratio |-> Frac(CountLabel(labels, "NEGATIVE"), n),
         toxicity_avg |-> ToxAvg(tox),
         style |-> analyze_korean_style(ss, toks),
         topic_div |-> FMin(One, Frac(Cardinality(Range(ss)), n))]

Summarise ==
    /\ pc = "summary"
    /\ summary' = IF flow = "app"
                  THEN <<summarise_app(sentences, senti_labels, tox_scores, kiwi_tokens)>>
                  ELSE <<summarise_main(sentences, senti_labels, tox_scores)>>
    /\ pc' = "score"
    /\ UNCHANGED <<flow, norm, parse, sentences, env, signals, big5, mbti, outcome,
                   requests, io>>

(***************************************************************************)
(* The functions from the collaborators to the type code, applied to       *)
(* lists of units. Three families of inputs: every pattern of replies over *)
(* copies of one unit, every list of labels over longer lists of copies,   *)
(* and every list of sample units under uniform replies.                   *)
(***************************************************************************)
MaxUnits == 2
MaxLabelUnits == 5
MaxTokens == 2

\* "i x y"
S_plain == <<"i", " ", "x", " ", "y">>
\* "U+B4EF-U+B4EF U+B4EF-U+B4EF x"
S_hedge == <<"DEUT", "-", "DEUT", " ", "DEUT", "-", "DEUT", " ", "x">>
\* "U+BC18U+B4DCU+C2DC-U+BC18U+B4DCU+C2DC never-never y"
S_sure == <<"BAN", "DEU", "SI", "-", "BAN", "DEU", "SI", " ",
            "n", "e", "v", "e", "r", "-", "N", "e", "v", "e", "r", " ", "y">>
\* "x x x"
S_rep == <<"x", " ", "x", " ", "x">>

StyleSentences == {S_plain, S_hedge, S_sure, S_rep}

KiwiTokenSet ==
    { [form |-> "NA", tag |-> <<"N", "P">>], [form |-> "NA", tag |-> <<"E", "C">>],
      [form |-> "JINJJA", tag |-> <<"M", "A", "G">>],
      [form |-> "x", tag |-> <<"N", "N", "G">>] }

\* kiwi.tokenize of a text with a non-blank character: at least one token
KiwiOutputs == UNION {[1..n -> KiwiTokenSet] : n \in 1..MaxTokens}

InitReplies ==
    /\ sentences \in {[i \in 1..n |-> S_plain] : n \in 1..MaxUnits}
    /\ HF_TOKEN \in BOOLEAN
    /\ PERSPECTIVE_API_KEY \in BOOLEAN
    /\ hf_env = HfReplies
    /\ tox_env = ToxReplies
    /\ kiwi_tokens = IF flow = "app" THEN <<[form |-> "x", tag |-> <<"N", "N", "G">>]>>
                     ELSE <<>>

\* every list of labels over copies of one unit, without toxicity requests
InitLabels ==
    /\ sentences \in {[i \in 1..n |-> S_plain] : n \in 1..MaxLabelUnits}
    /\ HF_TOKEN = TRUE
    /\ PERSPECTIVE_API_KEY = FALSE
    /\ hf_env = [status : {"200"}, body : HfLabels]
    /\ tox_env = ToxReplies
    /\ kiwi_tokens = IF flow = "app" THEN <<[form |-> "x", tag |-> <<"N", "N", "G">>]>>
                     ELSE <<>>

InitUnits ==
    /\ sentences \in UNION {[1..n -> StyleSentences] : n \in 1..MaxUnits}
    /\ HF_TOKEN = TRUE
    /\ PERSPECTIVE_API_KEY = TRUE
    /\ hf_env \in {{r} : r \in [status : {"200"}, body : {"POSITIVE", "NEGATIVE"}]}
    /\ tox_env \in {{r} : r \in [status : {"200"}, value : {Zero, One}]}
    /\ IF flow = "app" THEN kiwi_tokens \in KiwiOutputs ELSE kiwi_tokens = <<>>

InitSignals ==
    /\ flow \in Flows
    /\ pc = "hf"
    /\ InitReplies \/ InitLabels \/ InitUnits
    /\ NormIdle /\ ParseIdle /\ SignalsIdle /\ ResultIdle
    /\ outcome = "running"
    /\ RequestsIdle /\ IoIdle

NextSignals ==
    HfNoToken \/ HfCall \/ ToxNoKey \/ ToxCall \/ Summarise \/ Score \/ Classify

SpecSignals == InitSignals /\ [][NextSignals]_vars

InUnit(x) == FLe(Zero, x) /\ FLe(x, One)

AfterSignals == pc \in {"summary", "score", "classify", "write", "store"}

\* C3: a failed request (or a missing credential) never aborts the run; it
\* leaves the neutral default for that unit, and both lists have one value
\* per unit
C3_FailuresBecomeNeutral ==
    /\ outcome # "crashed"
    /\ AfterSignals =>
        /\ Len(senti_labels) = Len(sentences)
        /\ Len(tox_scores) = Len(sentences)
        /\ \A i \in 1..Len(sentences) :
            /\ hf_failed[i] => senti_labels[i] = "NEUTRAL"
            /\ tox_failed[i] => tox_scores[i] = Zero

\* C3 restricted to the interactive flow
C3_FailuresBecomeNeutralApp ==
    flow = "app" => C3_FailuresBecomeNeutral

\* the float of the fraction of NEUTRAL labels
NeutralFraction == F64Div(CountLabel(senti_labels, "NEUTRAL"), Len(sentences))

\* positive_ratio + negative_ratio + neutral_ratio, as a real number
RatioSum(sm) ==
    SignedAdd(SignedAdd(ToF64(sm.positive_ratio), ToF64(sm.negative_ratio)),
              sm.neutral_ratio)

\* C10: in the standalone flow the four summary values lie in [0,1], the
\* three sentiment ratios sum to 1, and neutral_ratio (the complement
\* 1 - positive_ratio - negative_ratio) is the fraction of NEUTRAL labels
C10_SummaryRatios ==
    (flow = "main" /\ summary # <<>>) =>
        LET sm == summary[1]
        IN  /\ F64InUnit(ToF64(sm.positive_ratio))
            /\ F64InUnit(ToF64(sm.negative_ratio))
            /\ F64InUnit(sm.neutral_ratio)
            /\ InUnit(sm.toxicity_avg)
            /\ SameReal(RatioSum(sm), F64One)
            /\ SameReal(sm.neutral_ratio, NeutralFraction)

\* C10, its range alone: the standalone neutral_ratio lies in [0,1]
C10_NeutralRatioInRange ==
    (flow = "main" /\ summary # <<>>) => F64InUnit(summary[1].neutral_ratio)

\* C10 up to rounding: positive_ratio, negative_ratio and toxicity_avg lie
\* in [0,1]; neutral_ratio is within 2^(-51) of the fraction of NEUTRAL
\* labels and the three ratios sum to 1 within 2^(-51)
C10_SummaryRatiosRounded ==
    (flow = "main" /\ summary # <<>>) =>
        LET sm == summary[1]
        IN  /\ F64InUnit(ToF64(sm.positive_ratio))
            /\ F64InUnit(ToF64(sm.negative_ratio))
            /\ InUnit(sm.toxicity_avg)
            /\ F64Near(RatioSum(sm), F64One, 51)
            /\ F64Near(sm.neutral_ratio, NeutralFraction, 51)

\* the tokens the ttr is taken over: whitespace tokens of the joined text
\* (main.py), surface forms of the kiwi tokens (app.py)
TtrTokens ==
    IF flow = "app" THEN [i \in 1..Len(kiwi_tokens) |-> kiwi_tokens[i].form]
    ELSE Split(JoinSpace(sentences))

AllDistinct(xs) == \A i, j \in 1..Len(xs) : i # j => xs[i] # xs[j]

\* C6: for a non-empty sequence of units self_ref, certainty and
\* uncertainty lie in [0,1], ttr <= 1, and ttr = 1 exactly when all tokens
\* are distinct
C6_StyleRatios ==
    (summary # <<>> /\ sentences # <<>>) =>
        LET st == summary[1].style
        IN  /\ InUnit(st.self_ref) /\ InUnit(st.certainty) /\ InUnit(st.uncertainty)
            /\ FLe(st.ttr, One)
            /\ (st.ttr = One <=> AllDistinct(TtrTokens))

\* C6 restricted to the interactive flow
C6_StyleRatiosApp ==
    flow = "app" => C6_StyleRatios

\* C2: every trait score lies in its declared range, [0,100] for
\* infer_bigfive_korean and [0,1] for infer_bigfive
C2_TraitScoresInRange ==
    big5 # <<>> =>
        LET top == IF flow = "app" THEN Frac(100, 1) ELSE One
            b == big5[1]
        IN  \A v \in {b.openness, b.conscientiousness, b.extraversion,
                       b.agreeableness, b.neuroticism} :
                FLe(Zero, v) /\ FLe(v, top)

\* C2 restricted to the interactive flow
C2_TraitScoresInRangeApp ==
    flow = "app" => C2_TraitScoresInRange

(***************************************************************************)
(* A whole run: upload_api (app.py) and main (main.py)                     *)
(***************************************************************************)
\* U+C0AC U+C9C4 | U+C774 U+BAA8 U+D2F0 U+CF58 | U+B3D9 U+C601 U+C0C1
\* | "U+C0AD U+C81C U+B41C U+BA54 U+C2DC U+C9C0 U+C785 U+B2C8 U+B2E4."
SkipTokensMain ==
    { <<"SA", "JIN">>, <<"II", "MO", "TI", "KON">>, <<"DONG", "YEONG", "SANG">>,
      <<"SAK", "JE", "DOEN", " ", "ME", "SI", "JI", "IP", "NI", "DA", ".">> }

\* app.py adds "U+BCF4 U+C774 U+C2A4 U+D1A1 U+D574 U+C694." and U+D30C U+C77C
SkipTokensApp ==
    SkipTokensMain
        \cup { <<"BO", "II", "SEU", "TOK", " ", "HAE", "YO", ".">>, <<"PA", "IL">> }

SKIP_TOKENS(f) == IF f = "app" THEN SkipTokensApp ELSE SkipTokensMain

SentenceEnd == {".", "!", "?"}

\* end of the maximal run of "\n" starting at i
NewlineRunEnd(s, i) ==
    CHOOSE j \in i..Len(s) :
        /\ \A k \in i..j : s[k] = "\n"
        /\ (j = Len(s) \/ s[j + 1] # "\n")

RECURSIVE SplitParts(_, _, _)
\* re.split(r"(?<=[.!?])\s+|\n+", t): the parts from start on, scanning at i
SplitParts(s, i, start) ==
    IF i > Len(s) THEN <<Slice(s, start, Len(s))>>
    ELSE IF IsSpace(s[i]) /\ i > 1 /\ s[i - 1] \in SentenceEnd
    THEN <<Slice(s, start, i - 1)>>
            \o SplitParts(s, SpaceRunEnd(s, i) + 1, SpaceRunEnd(s, i) + 1)
    ELSE IF s[i] = "\n"
    THEN <<Slice(s, start, i - 1)>>
            \o SplitParts(s, NewlineRunEnd(s, i) + 1, NewlineRunEnd(s, i) + 1)
    ELSE SplitParts(s, i + 1, start)

\* [p.strip() for p in parts if p.strip()]
split_sentences(s) ==
    LET parts == SplitParts(s, 1, 1)
        stripped == [i \in 1..Len(parts) |-> Strip(parts[i])]
    IN  SelectSeq(stripped, LAMBDA x : x # <<>>)

RECURSIVE my_sentences(_, _)
\* app.py: the units of the target speaker
my_sentences(rs, name) ==
    IF rs = <<>> THEN <<>>
    ELSE LET r == Head(rs)
             rest == my_sentences(Tail(rs), name)
         IN  IF r.speaker = name /\ r.text # <<>> /\ r.text \notin SKIP_TOKENS("app")
             THEN LET cleaned == clean_text_app(r.text)
                  IN  IF cleaned # <<>> THEN <<cleaned>> \o rest ELSE rest
             ELSE rest

RECURSIVE SpeakerSentences(_, _)
\* main.py: the sentences of the speaker's rows, before the length filter
SpeakerSentences(rs, name) ==
    IF rs = <<>> THEN <<>>
    ELSE LET r == Head(rs)
             rest == SpeakerSentences(Tail(rs), name)
         IN  IF r.speaker # name THEN rest
             ELSE IF r.text = <<>> \/ r.text \in SKIP_TOKENS("main") THEN rest
             ELSE split_sentences(clean_text_main(r.text)) \o rest

\* main.py: sentences = [s for s in sentences if len(s.split()) >= 3]
LongSentences(ss) == SelectSeq(ss, LAMBDA x : Len(Split(x)) >= 3)

\* the normalized units of a run
Units(f, rs, name) ==
    IF f = "app" THEN my_sentences(rs, name)
    ELSE LongSentences(SpeakerSentences(rs, name))

\* app.py with len(my_sentences) < 4
TooFewLax(f, ss) == IF f = "app" THEN Len(ss) < 4 ELSE Len(ss) = 0

\* app.py: len(my_sentences) < 5; main.py: len(sentences) == 0
TooFew(f, ss) == IF f = "app" THEN Len(ss) < 5 ELSE Len(ss) = 0

\* the start of a run, up to the parser. app.py: a request with a .txt file
\* and a non-empty name; without a session it is redirected to the login
\* page, with one the upload is saved and the connection opened.
\* main.py: exits without HF_TOKEN
Begin ==
    /\ pc = "start"
    /\ IF flow = "app"
       THEN IF session = <<>>
            THEN /\ outcome' = "login_required"
                 /\ pc' = "end"
                 /\ UNCHANGED <<saved, conn>>
            ELSE /\ saved' = TRUE
                 /\ conn' = "open"
                 /\ pc' = "open"
                 /\ UNCHANGED outcome
       ELSE /\ IF ~HF_TOKEN
               THEN outcome' = "no_token" /\ pc' = "end"
               ELSE pc' = "open" /\ UNCHANGED outcome
            /\ UNCHANGED <<saved, conn>>
    /\ UNCHANGED <<flow, norm, parse, sentences, env, signals, result, requests,
                   session, target_name, db, report, shown>>

\* the filter and the minimum check. main.py: an exception of the parser
\* ends the run; app.py: the early return closes the connection (finally)
Filter ==
    /\ pc = "parsed"
    /\ IF raised
       THEN /\ Crash
            /\ UNCHANGED <<sentences, conn>>
       ELSE LET ss == Units(flow, rows, target_name)
            IN  /\ sentences' = ss
                /\ IF TooFew(flow, ss)
                   THEN /\ outcome' = "insufficient"
                        /\ pc' = "end"
                        /\ conn' = IF flow = "app" THEN "closed" ELSE conn
                   ELSE /\ pc' = "hf"
                        /\ UNCHANGED <<outcome, conn>>
    /\ UNCHANGED <<flow, norm, parse, env, signals, result, requests,
                   session, target_name, saved, db, report, shown>>

\* the row of chat_logs
LogRow(id) == [log_id |-> id, user_id |-> session[1], target_name |-> target_name]

\* the row of personality_results
ResultRow(id) ==
    [log_id |-> id, user_id |-> session[1], big5 |-> big5[1],
     mbti_prediction |-> mbti[1].mbti_result,
     toxicity_score |-> summary[1].toxicity_avg,
     sentiment_pos_ratio |-> summary[1].positive_ratio,
     sentiment_neg_ratio |-> summary[1].negative_ratio]

\* where the database can raise
DbFailures == {"none", "insert_log", "insert_result", "commit"}

\* a connection's view of the database: the committed rows and the rows
\* of its open transaction
Connect(d) == [committed |-> d, pending |-> EmptyDb]

\* cursor.execute(INSERT) with autocommit on: the row is committed at once
ExecuteAutocommit(c, table, row) ==
    [c EXCEPT !.committed[table] = @ \cup {row}]

\* cursor.execute(INSERT): pymysql.connect(**db_config) leaves autocommit
\* off, the row joins the open transaction
Execute(c, table, row) ==
    [c EXCEPT !.pending[table] = @ \cup {row}]

\* conn.commit()
Commit(c) ==
    [committed |-> [chat_logs |-> c.committed.chat_logs \cup c.pending.chat_logs,
                    personality_results |->
                        c.committed.personality_results
                            \cup c.pending.personality_results],
     pending |-> EmptyDb]

\* conn.rollback()
Rollback(c) == [c EXCEPT !.pending = EmptyDb]

\* conn.close(): what the database holds afterwards
Close(c) == c.committed

\* app.py: the two INSERTs and the commit; an exception rolls back; the
\* connection is closed either way
Store ==
    /\ pc = "store" /\ flow = "app"
    /\ \E fail \in DbFailures :
        LET id == Cardinality(db.chat_logs) + 1
            c0 == Connect(db)
            c1 == Execute(c0, "chat_logs", LogRow(id))
            c2 == Execute(c1, "personality_results", ResultRow(id))
        IN  IF fail = "none"
            THEN /\ db' = Close(Commit(c2))
                 /\ outcome' = "done"
            ELSE /\ db' = Close(Rollback(IF fail = "insert_log" THEN c0
                                         ELSE IF fail = "insert_result" THEN c1
                                         ELSE c2))
                 /\ outcome' = "error"
    /\ conn' = "closed"
    /\ pc' = "end"
    /\ UNCHANGED <<flow, norm, parse, sentences, env, signals, result, requests,
                   session, target_name, saved, report, shown>>

\* app.py: an exception raised by any other statement of the try block
\* (except Exception: rollback, flash; finally: close)
Raise ==
    /\ flow = "app" /\ conn = "open"
    /\ pc \in {"parsed", "hf", "tox", "summary", "score", "classify"}
    /\ db' = Close(Rollback(Connect(db)))
    /\ outcome' = "error"
    /\ conn' = "closed"
    /\ pc' = "end"
    /\ UNCHANGED <<flow, norm, parse, sentences, env, signals, result, requests,
                   session, target_name, saved, report, shown>>

\* main.py: write_report(outdir, per_sent, summary, big5)
write_report ==
    /\ pc = "write" /\ flow = "main"
    /\ report' = <<[utterances |->
                        [i \in 1..Len(sentences) |->
                            [sentence |-> sentences[i], sentiment |-> senti_labels[i],
                             toxicity |-> tox_scores[i]]],
                    summary |-> summary[1],
                    big_five_exploratory |-> big5[1]]>>
    /\ outcome' = "done"
    /\ pc' = "end"
    /\ UNCHANGED <<flow, norm, parse, sentences, env, signals, result, requests,
                   session, target_name, saved, conn, db, shown>>

MaxRunLines == 5

\* "[" name "] [1:23] " text
RunLine(name, text) ==
    <<"[">> \o name \o <<"]", " ", "[", "1", ":", "2", "3", "]", " ">> \o text

\* "x y z! x", "x", U+C0AC U+C9C4 of speaker a; "x y z" of speaker b
RunLines ==
    { RunLine(<<"a">>, <<"x", " ", "y", " ", "z", "!", " ", "x">>),
      RunLine(<<"a">>, <<"x">>),
      RunLine(<<"a">>, <<"SA", "JIN">>),
      RunLine(<<"b">>, <<"x", " ", "y", " ", "z">>) }

RunTranscripts == UNION {[1..n -> RunLines] : n \in 0..MaxRunLines}

InitRun ==
    /\ flow \in Flows
    /\ pc = "start"
    /\ NormIdle
    /\ lines \in RunTranscripts
    /\ fail_at = NoFail /\ idx = 0 /\ rows = <<>> /\ raised = FALSE
    /\ sentences = <<>>
    /\ HF_TOKEN \in BOOLEAN
    /\ PERSPECTIVE_API_KEY = HF_TOKEN
    /\ hf_env = {[status |-> "200", body |-> "POSITIVE"]}
    /\ tox_env = {[status |-> "200", value |-> Lit(50)]}
    /\ kiwi_tokens = IF flow = "app" THEN <<[form |-> "x", tag |-> <<"N", "N", "G">>]>>
                     ELSE <<>>
    /\ SignalsIdle /\ ResultIdle
    /\ outcome = "running"
    /\ RequestsIdle
    /\ IF flow = "app" THEN session \in {<<>>, <<1>>} ELSE session = <<>>
    /\ target_name = <<"a">>
    /\ saved = FALSE /\ conn = "none" /\ db = EmptyDb /\ report = <<>>
    /\ shown = <<>>

NextRun ==
    \/ Begin \/ OpenFile \/ ReadLine \/ EndOfFile \/ Filter
    \/ HfNoToken \/ HfCall \/ ToxNoKey \/ ToxCall
    \/ Summarise \/ Score \/ Classify \/ Store \/ write_report

SpecRun == InitRun /\ [][NextRun]_vars

\* the run has passed the filter
Filtered ==
    /\ pc \in {"hf", "tox", "summary", "score", "classify", "store", "write", "end"}
    /\ outcome \notin {"login_required", "no_token", "crashed"}

\* C5: with fewer than 5 units (upload_api) or none (main) the run ends as
\* insufficient, and a run that ended so has issued no sentiment or
\* toxicity request, computed no summary, trait score or type, inserted
\* nothing into the database and written no report
C5_InsufficientStopsEarly ==
    /\ Filtered =>
        LET units == Units(flow, rows, target_name)
        IN  /\ sentences = units
            /\ (IF flow = "app" THEN Len(units) < 5 ELSE Len(units) = 0)
                  <=> outcome = "insufficient"
    /\ outcome = "insufficient" =>
        /\ pc = "end"
        /\ hf_requests = 0 /\ tox_requests = 0
        /\ senti_labels = <<>> /\ tox_scores = <<>>
        /\ summary = <<>> /\ big5 = <<>> /\ mbti = <<>>
        /\ db = EmptyDb /\ report = <<>>

\* C5 witness: upload_api ends as insufficient on five rows of which four
\* are the target speaker's units
C5_Witness ==
    /\ flow = "app" /\ outcome = "insufficient"
    /\ Len(rows) = 5 /\ Len(sentences) = 4
    /\ hf_requests = 0 /\ db = EmptyDb

\* main ends as insufficient on a transcript without a row of the speaker
C5_WitnessNoSpeakerLine ==
    /\ flow = "main" /\ outcome = "insufficient"
    /\ Len(rows) >= 1 /\ \A i \in 1..Len(rows) : rows[i].speaker # target_name
    /\ report = <<>>

\* a run that passes the minimum check and stores its result
RunStored ==
    /\ flow = "app" /\ outcome = "done" /\ Len(sentences) = 5
    /\ hf_requests = 5 /\ db # EmptyDb

(***************************************************************************)
(* The filter applied to rows whose texts are built from a placeholder     *)
(* token, a URL, a glyph, a word and whitespace                            *)
(***************************************************************************)
MaxFilterPieces == 3
MaxFilterRows == 2

\* U+C0AC U+C9C4, "http://x", U+314B, "x", " "
FilterPieces ==
    { <<"SA", "JIN">>, <<"h", "t", "t", "p", ":", "/", "/", "x">>, <<"KK">>,
      <<"x">>, <<" ">> }

\* m.group("msg").strip() of a matching line: a stripped text
FilterTexts ==
    {Strip(Concat(ps)) : ps \in UNION {[1..n -> FilterPieces] : n \in 1..MaxFilterPieces}}

FilterRows ==
    [speaker : {<<"a">>, <<"b">>}, time : {<<"1", ":", "2", "3">>}, text : FilterTexts]

InitFilter ==
    /\ flow \in Flows
    /\ pc = "parsed"
    /\ NormIdle
    /\ lines = <<>> /\ fail_at = NoFail /\ idx = 0 /\ raised = FALSE
    /\ rows \in UNION {[1..n -> FilterRows] : n \in 1..MaxFilterRows}
    /\ sentences = <<>>
    /\ EnvIdle /\ SignalsIdle /\ ResultIdle
    /\ outcome = "running"
    /\ RequestsIdle
    /\ session = IF flow = "app" THEN <<1>> ELSE <<>>
    /\ target_name = <<"a">>
    /\ saved = (flow = "app")
    /\ conn = IF flow = "app" THEN "open" ELSE "none"
    /\ db = EmptyDb /\ report = <<>> /\ shown = <<>>

NextFilter == Filter

SpecFilter == InitFilter /\ [][NextFilter]_vars

\* the filter has run
AfterFilter == pc \in {"hf", "end"} /\ ~raised

\* C11: no unit the filter puts out is empty or equal to a placeholder
\* token of SKIP_TOKENS
C11_NoPlaceholderUnits ==
    AfterFilter =>
        \A i \in 1..Len(sentences) :
            sentences[i] # <<>> /\ sentences[i] \notin SKIP_TOKENS(flow)

\* C11 restricted to the standalone flow
C11_NoPlaceholderUnitsMain ==
    flow = "main" => C11_NoPlaceholderUnits

\* C11, its first half: no unit the filter puts out is empty
C11_NoEmptyUnits ==
    AfterFilter => \A i \in 1..Len(sentences) : sentences[i] # <<>>

(***************************************************************************)
(* upload_api from the parsed rows on, with exceptions inside the try      *)
(* block, over a database that is empty or holds an earlier analysis       *)
(***************************************************************************)
MaxTxRows == 5

\* the rows of an earlier analysis of user 2
PriorDb ==
    [chat_logs |-> {[log_id |-> 1, user_id |-> 2, target_name |-> <<"b">>]},
     personality_results |->
        {[log_id |-> 1, user_id |-> 2,
          big5 |-> [openness |-> Fifty, conscientiousness |-> Fifty,
                    extraversion |-> Fifty, agreeableness |-> Fifty,
                    neuroticism |-> Fifty],
          mbti_prediction |-> <<"E", "N", "F", "J">>,
          toxicity_score |-> Zero, sentiment_pos_ratio |-> Zero,
          sentiment_neg_ratio |-> Zero]}]

TxRows ==
    { [speaker |-> <<"a">>, time |-> <<"1", ":", "2", "3">>,
       text |-> <<"x", " ", "y">>],
      [speaker |-> <<"b">>, time |-> <<"1", ":", "2", "3">>,
       text |-> <<"x", " ", "y">>] }

InitTx ==
    /\ flow = "app"
    /\ pc = "parsed"
    /\ NormIdle
    /\ lines = <<>> /\ fail_at = NoFail /\ idx = 0 /\ raised = FALSE
    /\ rows \in UNION {[1..n -> TxRows] : n \in 0..MaxTxRows}
    /\ sentences = <<>>
    /\ HF_TOKEN \in BOOLEAN
    /\ PERSPECTIVE_API_KEY = HF_TOKEN
    /\ hf_env = {[status |-> "200", body |-> "POSITIVE"]}
    /\ tox_env = {[status |-> "200", value |-> Lit(50)]}
    /\ kiwi_tokens = <<[form |-> "x", tag |-> <<"N", "N", "G">>]>>
    /\ SignalsIdle /\ ResultIdle
    /\ outcome = "running"
    /\ RequestsIdle
    /\ session = <<1>>
    /\ target_name = <<"a">>
    /\ saved = TRUE
    /\ conn = "open"
    /\ db \in {EmptyDb, PriorDb}
    /\ report = <<>> /\ shown = <<>>

NextTx ==
    \/ Filter \/ HfNoToken \/ HfCall \/ ToxNoKey \/ ToxCall
    \/ Summarise \/ Score \/ Classify \/ Store \/ Raise

SpecTx == InitTx /\ [][NextTx]_vars

\* the rows of this analysis
NewLogs == db.chat_logs \ PriorDb.chat_logs
NewResults == db.personality_results \ PriorDb.personality_results

\* C12: the database never holds one row of an analysis without the other;
\* when the handler has returned the connection is closed, and the
\* database holds both rows of this analysis after success and neither
\* after insufficient data or an exception
C12_BothRowsOrNeither ==
    /\ \A l \in db.chat_logs : \E r \in db.personality_results : r.log_id = l.log_id
    /\ \A r \in db.personality_results : \E l \in db.chat_logs : l.log_id = r.log_id
    /\ pc = "end" =>
        /\ conn = "closed"
        /\ outcome \in {"done", "insufficient", "error"}
        /\ IF outcome = "done"
           THEN Cardinality(NewLogs) = 1 /\ Cardinality(NewResults) = 1
           ELSE NewLogs = {} /\ NewResults = {}

\* C12 witness: the handler has returned after an exception raised once the
\* type code was computed, with an earlier analysis in the database
C12_Witness ==
    /\ pc = "end" /\ outcome = "error" /\ mbti # <<>>
    /\ db = PriorDb /\ conn = "closed"

\* the handler has stored both rows next to an earlier analysis
TxStored ==
    /\ pc = "end" /\ outcome = "done"
    /\ Cardinality(db.chat_logs) = 2 /\ Cardinality(db.personality_results) = 2

(***************************************************************************)
(* The routes of app.py behind the session: login, logout, upload_api and  *)
(* result_page, one request at a time                                      *)
(***************************************************************************)
MaxLogs == 2

\* the user_id values of the users table
Users == {1, 2}

\* the rows of SELECT r.*, ... FROM personality_results r JOIN chat_logs l
\* ON r.log_id = l.log_id WHERE r.log_id = %s, without the user
ResultQueryAnyUser(d, id, uid) ==
    {r \in d.personality_results :
        r.log_id = id /\ \E l \in d.chat_logs : l.log_id = r.log_id}

\* the rows of SELECT r.*, ... FROM personality_results r JOIN chat_logs l
\* ON r.log_id = l.log_id WHERE r.log_id = %s AND r.user_id = %s
ResultQuery(d, id, uid) ==
    {r \in d.personality_results :
        /\ r.log_id = id /\ r.user_id = uid
        /\ \E l \in d.chat_logs : l.log_id = r.log_id}

\* POST /login: the session is set when the user exists and the password
\* checks; otherwise (and on GET) the login page is rendered
login ==
    /\ pc = "idle"
    /\ \E u \in Users, ok \in BOOLEAN :
        IF ok THEN session' = <<u>> /\ outcome' = "upload_page"
        ELSE UNCHANGED session /\ outcome' = "login_page"
    /\ shown' = <<>>
    /\ UNCHANGED <<flow, pc, norm, parse, sentences, env, signals, result, requests,
                   target_name, saved, conn, db, report>>

\* GET /logout: session.clear()
logout ==
    /\ pc = "idle"
    /\ session' = <<>>
    /\ outcome' = "logged_out"
    /\ shown' = <<>>
    /\ UNCHANGED <<flow, pc, norm, parse, sentences, env, signals, result, requests,
                   target_name, saved, conn, db, report>>

\* GET /result/<log_id>
result_page ==
    /\ pc = "idle"
    /\ \E id \in 1..MaxLogs :
        IF session = <<>>
        THEN outcome' = "login_required" /\ shown' = <<>>
        ELSE LET found == ResultQuery(db, id, session[1])
             IN  IF found = {}
                 THEN outcome' = "not_found" /\ shown' = <<>>
                 ELSE /\ \E r \in found : shown' = <<r>>
                      /\ outcome' = "result"
    /\ UNCHANGED <<flow, pc, norm, parse, sentences, env, signals, result, requests,
                   session, target_name, saved, conn, db, report>>

\* five lines of speaker a, or one
SessionTranscripts ==
    { [i \in 1..n |-> RunLine(<<"a">>, <<"x", " ", "y">>)] : n \in {1, 5} }

\* POST /api/upload_chat arrives with a transcript
Request ==
    /\ pc = "idle"
    /\ Cardinality(db.chat_logs) < MaxLogs
    /\ lines' \in SessionTranscripts
    /\ pc' = "start"
    /\ outcome' = "running"
    /\ shown' = <<>>
    /\ UNCHANGED <<flow, norm, fail_at, idx, rows, raised, sentences, env, signals,
                   result, requests, session, target_name, saved, conn, db, report>>

\* upload_api has returned its response; the request's locals are gone
Return ==
    /\ pc = "end"
    /\ pc' = "idle"
    /\ lines' = <<>> /\ idx' = 0 /\ rows' = <<>> /\ raised' = FALSE
    /\ sentences' = <<>>
    /\ senti_labels' = <<>> /\ tox_scores' = <<>>
    /\ hf_failed' = <<>> /\ tox_failed' = <<>>
    /\ summary' = <<>> /\ big5' = <<>> /\ mbti' = <<>>
    /\ hf_requests' = 0 /\ tox_requests' = 0
    /\ saved' = FALSE /\ conn' = "none"
    /\ UNCHANGED <<flow, norm, fail_at, env, outcome, session, target_name, db,
                   report, shown>>

InitSession ==
    /\ flow = "app"
    /\ pc = "idle"
    /\ NormIdle /\ ParseIdle
    /\ sentences = <<>>
    /\ HF_TOKEN \in BOOLEAN
    /\ PERSPECTIVE_API_KEY = HF_TOKEN
    /\ hf_env = {[status |-> "200", body |-> "POSITIVE"]}
    /\ tox_env = {[status |-> "200", value |-> Lit(50)]}
    /\ kiwi_tokens = <<[form |-> "x", tag |-> <<"N", "N", "G">>]>>
    /\ SignalsIdle /\ ResultIdle
    /\ outcome = "running"
    /\ RequestsIdle
    /\ session = <<>>
    /\ target_name = <<"a">>
    /\ saved = FALSE /\ conn = "none"
    /\ db = PriorDb
    /\ report = <<>> /\ shown = <<>>

NextSession ==
    \/ login \/ logout \/ result_page \/ Request
    \/ Begin \/ OpenFile \/ ReadLine \/ EndOfFile \/ Filter
    \/ HfNoToken \/ HfCall \/ ToxNoKey \/ ToxCall
    \/ Summarise \/ Score \/ Classify \/ Store \/ Raise \/ Return

SpecSession == InitSession /\ [][NextSession]_vars

\* upload_api is past its session check
Handling ==
    pc \in {"open", "reading", "parsed", "hf", "tox", "summary", "score",
            "classify", "store"}

\* in a state: an upload without a session has ended at the redirect to the
\* login page with nothing saved, parsed, requested or opened; a rendered
\* result is a row of the session's user
SessionState ==
    /\ (pc \notin {"idle", "start"} /\ session = <<>>)
          => (pc = "end" /\ outcome = "login_required")
    /\ (\/ Handling \/ saved \/ idx > 0 \/ rows # <<>> \/ conn # "none"
        \/ hf_requests > 0 \/ tox_requests > 0)
          => session # <<>>
    /\ outcome = "login_required"
          => (/\ ~saved /\ idx = 0 /\ rows = <<>> /\ conn = "none"
              /\ hf_requests = 0 /\ tox_requests = 0 /\ shown = <<>>)
    /\ shown # <<>> => (session # <<>> /\ shown[1].user_id = session[1])

\* in a step: the database changes, a file is saved, a line is read or a
\* request is issued only with a user_id in the session, the new rows being
\* that user's; a step taken without one changes neither the session nor
\* the database unless it is a login
SessionStep ==
    /\ (\/ db' # db \/ (saved' /\ ~saved) \/ idx' > idx
        \/ hf_requests' > hf_requests \/ tox_requests' > tox_requests)
          => (/\ session # <<>> /\ session' = session
              /\ \A r \in (db'.chat_logs \ db.chat_logs)
                          \cup (db'.personality_results \ db.personality_results) :
                    r.user_id = session[1])
    /\ (session = <<>> /\ outcome' = "login_required")
          => (session' = <<>> /\ db' = db /\ saved' = saved)

\* C13: upload_api saves, parses, calls a collaborator or writes to the
\* database only while the session holds a user_id; result_page renders a
\* stored result only when its user_id is the session's; an upload or
\* result request without a session is redirected to the login page with
\* no other effect
C13_SessionGuards == []SessionState /\ [][SessionStep]_vars

\* C13 witness: user 1, logged in, is shown the result of the own upload
\* (log_id 2) while the database also holds a result of user 2
C13_Witness ==
    /\ outcome = "result" /\ session = <<1>>
    /\ shown # <<>> /\ shown[1].user_id = 1 /\ shown[1].log_id = 2
    /\ \E r \in db.personality_results : r.user_id = 2

\* an upload without a session has been redirected
UploadRedirected ==
    pc = "end" /\ outcome = "login_required" /\ lines # <<>> /\ session = <<>>

\* user 1 asks for the result of user 2 and is not shown it
ForeignResultRefused ==
    /\ outcome = "not_found" /\ session = <<1>> /\ shown = <<>>
    /\ \E r \in db.personality_results : r.user_id = 2

====
